---- MODULE Spec2Model ----
(***************************************************************************)
(* Model of the concurrency harness: the client's execute_scenario /       *)
(* process_request / call_api (src/client/main.py) running on one asyncio  *)
(* event loop, against the server's handlers (src/server/app/main.py):     *)
(* coroutine handlers (/api1, /api2, /api4) run on the server's event      *)
(* loop, the plain function /api3 runs on a worker of the thread pool.     *)
(*                                                                         *)
(* Time is a discrete clock `now` counting ticks finer than the            *)
(* millisecond that round(x, 3) keeps of a duration in seconds.  Steps of  *)
(* coroutines between two suspension points take no time; time passes only *)
(* in asyncio.sleep, in the server's delay and in a synchronous workload.  *)
(* The event loop runs its ready callbacks in FIFO order and only sleeps   *)
(* in the selector when nothing is ready.                                  *)
(***************************************************************************)
EXTENDS Integers, Sequences, FiniteSets, TLC

\* ---- bounds of the model ------------------------------------------------
MaxCount == 2   \* largest `count` handed to execute_scenario
MaxDelay == 2   \* ticks standing for random.uniform(0, 3.0)
MaxCpu   == 2   \* ticks a cpu_bound() call may take (at least 1)
TicksPerMs == 3 \* clock ticks in one millisecond, the unit round(x, 3) keeps
PoolSize == 1   \* worker threads the server runs plain-function handlers on
MaxFibN  == 6   \* largest input the fibonacci recursion is stepped through

Units      == 1..MaxCount
Counts     == -1..MaxCount
Endpoints  == {"/api1", "/api2"}
ServerEndpoints == {"/api1", "/api2", "/api3", "/api4"}   \* routes of the server
Workloads  == {"simple_computation", "io_bound_async", "cpu_bound"}
Main       == 0                     \* the execute_scenario coroutine in the ready queue
None       == [none |-> TRUE]       \* Python's None / a value not yet set

VARIABLES
    api_endpoint, count, processing_func,   \* arguments of execute_scenario
    phase,            \* position of execute_scenario
    error,            \* exception that ended execute_scenario, "" if none
    session,          \* aiohttp.ClientSession: "none", "open", "closed"
    tasks,            \* the list `tasks` (request_num of each coroutine)
    start_time,       \* execute_scenario's start_time
    pc,               \* position of each process_request coroutine
    ready,            \* the event loop's FIFO queue of runnable tasks
    remaining,        \* ticks left in the synchronous workload holding the loop
    request_start, api_time, processing_start,   \* locals of process_request
    wakeAt,           \* deadline of the client's asyncio.sleep
    result,           \* value each process_request task finished with
    printed,          \* the per-request lines printed, in print order
    results, total_time, success_count, average, \* locals of execute_scenario
    net,              \* state of each unit's GET: "idle","req","srv","resp","fail"
    srvWake,          \* deadline of the server's asyncio.sleep in /api2
    delay_seconds,    \* delay drawn by the server handler
    procDelay,        \* delay drawn by the client workload
    calls,            \* number of GETs each unit has issued
    ep,               \* the route each GET is addressed to
    fib,              \* the call stack of a fibonacci(n) evaluation
    workloadCalls,    \* number of times each unit invoked processing_func
    now               \* the clock

vars == <<api_endpoint, count, processing_func, phase, error, session, tasks,
          start_time, pc, ready, remaining, request_start, api_time,
          processing_start, wakeAt, result, printed, results, total_time,
          success_count, average, net, srvWake, delay_seconds, procDelay,
          calls, ep, fib, workloadCalls, now>>

config   == <<api_endpoint, count, processing_func>>
summary  == <<results, total_time, success_count, average>>
srvState == <<srvWake, delay_seconds>>

\* ---- helpers -------------------------------------------------------------
IsException(r) == "exception" \in DOMAIN r
HasError(r)    == "error" \in DOMAIN r

\* range(count) with request_num = i + 1
TaskOrdinals_OffByOne(c) == [i \in 1..(c - 1) |-> i]
TaskOrdinals(c) == [i \in 1..c |-> i]

\* asyncio.iscoroutinefunction(processing_func)
iscoroutinefunction(f) == f = "io_bound_async"

\* positions in which a coroutine occupies the event-loop thread
HoldsLoop_BlockingGet(p)   == p \in {"computing", "awaiting_api"}
HoldsLoop_BlockingSleep(p) == p \in {"computing", "sleeping"}
HoldsLoop_Executor(p)      == FALSE
HoldsLoop(p) == p = "computing"

LoopFreeFor(u) == \A v \in Units : v # u => ~HoldsLoop(pc[v])
LoopFree       == \A v \in Units : ~HoldsLoop(pc[v])
ReadyHead(t)   == LoopFree /\ ready # <<>> /\ Head(ready) = t

\* call_api: the response body, or {"error": str(e)} on any exception
call_api_Raises(u) ==
    IF net[u] = "fail"
    THEN [exception |-> "ClientConnectorError"]
    ELSE [api |-> api_endpoint, delay_seconds |-> delay_seconds[u], message |-> "Success"]
call_api(u) ==
    IF net[u] = "fail"
    THEN [error |-> "ClientConnectorError"]
    ELSE [api |-> api_endpoint, delay_seconds |-> delay_seconds[u], message |-> "Success"]

\* gather's outer future is done when every child has finished
GatherFinished_FirstCompleted(pcs) ==
    count <= 0 \/ \E u \in 1..count : pcs[u] = "done"
GatherFinished(pcs) == \A u \in Units : u <= count => pcs[u] = "done"

\* a child's done-callback wakes execute_scenario once gather is finished
OnTaskDone_NoWake(q, pcs) == q
OnTaskDone(q, pcs) == IF GatherFinished(pcs) THEN Append(q, Main) ELSE q

\* the list gather returns: one entry per awaitable, in argument order
GatherResults_AsCompleted(ts, res, log) ==
    [i \in 1..Len(log) |-> res[log[i]]]
GatherResults(ts, res, log) == [i \in 1..Len(ts) |-> res[ts[i]]]

\* sum(1 for r in results if not isinstance(r, Exception) and "error" not in r)
RECURSIVE SuccessCount(_)
SuccessCount(rs) ==
    IF rs = <<>> THEN 0
    ELSE (IF ~IsException(Head(rs)) /\ ~HasError(Head(rs)) THEN 1 ELSE 0)
         + SuccessCount(Tail(rs))

\* round(x, 3) of a duration of t ticks: the nearest whole millisecond
round3(t) == (2 * t + TicksPerMs) \div (2 * TicksPerMs)

\* the dict process_request returns (durations rounded, in milliseconds)
MakeResult(u, pr) ==
    [request_num       |-> u,
     api_time          |-> round3(api_time[u]),
     processing_time   |-> round3(now - processing_start[u]),
     total_time        |-> round3(now - request_start[u]),
     processing_result |-> pr]

\* where a unit suspended in call_api goes when the transport reports n:
\* it is resumed once, whatever the outcome (no retry)
AfterApiEvent_Retry(n) == IF n = "fail" THEN "ready" ELSE "api_ready"
AfterApiEvent(n) == "api_ready"

\* await asyncio.sleep(delay): the task is resumed when the delay has elapsed
SleepDue_NotAwaited(u) == TRUE
SleepDue(u) == now >= wakeAt[u]

\* ---- initial state -------------------------------------------------------
FibIdle == [who |-> "none", n |-> 0, stack |-> <<>>, calls |-> 0,
            done |-> FALSE, value |-> 0]

\* nothing has run yet
Idle ==
    /\ phase = "Configured"
    /\ error = ""
    /\ session = "none"
    /\ tasks = <<>>
    /\ start_time = 0
    /\ pc = [u \in Units |-> "none"]
    /\ ready = <<>>
    /\ remaining = 0
    /\ request_start = [u \in Units |-> 0]
    /\ api_time = [u \in Units |-> 0]
    /\ processing_start = [u \in Units |-> 0]
    /\ wakeAt = [u \in Units |-> 0]
    /\ result = [u \in Units |-> None]
    /\ printed = <<>>
    /\ results = <<>>
    /\ total_time = 0
    /\ success_count = 0
    /\ average = None
    /\ net = [u \in Units |-> "idle"]
    /\ srvWake = [u \in Units |-> 0]
    /\ delay_seconds = [u \in Units |-> 0]
    /\ procDelay = [u \in Units |-> 0]
    /\ calls = [u \in Units |-> 0]
    /\ workloadCalls = [u \in Units |-> 0]
    /\ ep = [u \in Units |-> "none"]
    /\ now = 0

Init ==
    /\ api_endpoint \in Endpoints
    /\ count \in Counts
    /\ processing_func \in Workloads
    /\ Idle
    /\ fib = FibIdle

\* ---- execute_scenario ----------------------------------------------------
\* lines 90-97: take start_time, open the session, build the coroutines
CreateTasks ==
    /\ phase = "Configured"
    /\ phase' = "Dispatched"
    /\ start_time' = now
    /\ session' = "open"
    /\ tasks' = TaskOrdinals(count)
    /\ pc' = [u \in Units |->
                IF \E i \in 1..Len(tasks') : tasks'[i] = u THEN "created" ELSE pc[u]]
    /\ UNCHANGED <<config, ep, fib, error, ready, remaining, request_start, api_time,
                   processing_start, wakeAt, result, printed, summary, net,
                   srvState, procDelay, calls, workloadCalls, now>>

\* line 99: gather wraps every coroutine in a task (scheduled in argument
\* order) and execute_scenario suspends; gather of nothing is already done
Gather ==
    /\ phase = "Dispatched"
    /\ phase' = "Collecting"
    /\ pc' = [u \in Units |-> IF pc[u] = "created" THEN "ready" ELSE pc[u]]
    /\ ready' = IF tasks = <<>> THEN <<Main>> ELSE tasks
    /\ UNCHANGED <<config, ep, fib, error, session, tasks, start_time, remaining,
                   request_start, api_time, processing_start, wakeAt, result,
                   printed, summary, net, srvState, procDelay, calls,
                   workloadCalls, now>>

\* lines 99-114: gather returns, the session closes, the summary is computed
\* and printed; the average divides by count
Summarize ==
    /\ phase = "Collecting"
    /\ ReadyHead(Main)
    /\ ready' = Tail(ready)
    /\ session' = "closed"
    /\ results' = GatherResults(tasks, result, printed)
    /\ total_time' = now - start_time
    /\ success_count' = SuccessCount(results')
    /\ IF count = 0
       THEN /\ error' = "ZeroDivisionError"
            /\ phase' = "Crashed"
            /\ average' = None
       ELSE /\ error' = ""
            /\ phase' = "Completed"
            /\ average' = [num |-> total_time', den |-> count]
    /\ UNCHANGED <<config, ep, fib, tasks, start_time, pc, remaining, request_start,
                   api_time, processing_start, wakeAt, result, printed, net,
                   srvState, procDelay, calls, workloadCalls, now>>

\* ---- process_request -----------------------------------------------------
\* lines 137-139 and call_api lines 62-65: take request_start, issue the GET
\* and suspend until the transport reports a response or a failure
StartUnit(u) ==
    /\ ReadyHead(u)
    /\ pc[u] = "ready"
    /\ ready' = Tail(ready)
    /\ request_start' = [request_start EXCEPT ![u] = now]
    /\ net' = [net EXCEPT ![u] = "req"]
    /\ calls' = [calls EXCEPT ![u] = @ + 1]
    /\ ep' = [ep EXCEPT ![u] = api_endpoint]
    /\ pc' = [pc EXCEPT ![u] = "awaiting_api"]
    /\ UNCHANGED <<config, fib, phase, error, session, tasks, start_time, remaining,
                   api_time, processing_start, wakeAt, result, printed, summary,
                   srvState, procDelay, workloadCalls, now>>

\* the selector reports the unit's socket: its task becomes runnable
WakeApi(u) ==
    /\ LoopFreeFor(u)
    /\ pc[u] = "awaiting_api"
    /\ net[u] \in {"resp", "fail"}
    /\ pc' = [pc EXCEPT ![u] = AfterApiEvent(net[u])]
    /\ ready' = Append(ready, u)
    /\ UNCHANGED <<config, ep, fib, phase, error, session, tasks, start_time, remaining,
                   request_start, api_time, processing_start, wakeAt, result,
                   printed, summary, net, srvState, procDelay, calls,
                   workloadCalls, now>>

\* the task finishes: its line is printed, its value stored, gather notified
Finish(u, r, q) ==
    /\ result' = [result EXCEPT ![u] = r]
    /\ printed' = IF IsException(r) THEN printed ELSE Append(printed, u)
    /\ pc' = [pc EXCEPT ![u] = "done"]
    /\ ready' = OnTaskDone(q, pc')

\* call_api returns (lines 66-68), its value is discarded (line 139);
\* lines 140-147: api_time, processing_start, then the workload is invoked:
\* awaited if it is a coroutine function, called in place otherwise
ResumeAfterApi(u) ==
    /\ ReadyHead(u)
    /\ pc[u] = "api_ready"
    /\ LET r == call_api(u) IN
       IF IsException(r)
       THEN /\ Finish(u, r, Tail(ready))
            /\ UNCHANGED <<api_time, processing_start, workloadCalls, wakeAt,
                           procDelay, remaining>>
       ELSE /\ api_time' = [api_time EXCEPT ![u] = now - request_start[u]]
            /\ processing_start' = [processing_start EXCEPT ![u] = now]
            /\ workloadCalls' = [workloadCalls EXCEPT ![u] = @ + 1]
            /\ ready' = Tail(ready)
            /\ UNCHANGED <<result, printed>>
            /\ IF iscoroutinefunction(processing_func)
               THEN \* io_bound_async lines 30-31
                    \E d \in 0..MaxDelay :
                       /\ wakeAt' = [wakeAt EXCEPT ![u] = now + d]
                       /\ procDelay' = [procDelay EXCEPT ![u] = d]
                       /\ pc' = [pc EXCEPT ![u] = "sleeping"]
                       /\ UNCHANGED remaining
               ELSE \* simple_computation line 25, cpu_bound lines 37-45
                    \E c \in 0..MaxCpu :
                       /\ (processing_func = "simple_computation") <=> (c = 0)
                       /\ remaining' = c
                       /\ procDelay' = [procDelay EXCEPT ![u] = c]
                       /\ pc' = [pc EXCEPT ![u] = "computing"]
                       /\ UNCHANGED wakeAt
    /\ UNCHANGED <<config, ep, fib, phase, error, session, tasks, start_time,
                   request_start, summary, net, srvState, calls, now>>

\* the synchronous workload returns; lines 149-164 build, print and return
FinishSync(u) ==
    /\ pc[u] = "computing"
    /\ remaining = 0
    /\ LET pr == IF processing_func = "simple_computation"
                 THEN [type |-> "instant", value |-> 1 + 1]
                 ELSE [type |-> "CPU Bound", time |-> round3(now - processing_start[u])]
       IN Finish(u, MakeResult(u, pr), ready)
    /\ UNCHANGED <<config, ep, fib, phase, error, session, tasks, start_time, remaining,
                   request_start, api_time, processing_start, wakeAt, summary,
                   net, srvState, procDelay, calls, workloadCalls, now>>

\* the timer of asyncio.sleep is due: the task becomes runnable
WakeSleep(u) ==
    /\ LoopFreeFor(u)
    /\ pc[u] = "sleeping"
    /\ SleepDue(u)
    /\ pc' = [pc EXCEPT ![u] = "sleep_ready"]
    /\ ready' = Append(ready, u)
    /\ UNCHANGED <<config, ep, fib, phase, error, session, tasks, start_time, remaining,
                   request_start, api_time, processing_start, wakeAt, result,
                   printed, summary, net, srvState, procDelay, calls,
                   workloadCalls, now>>

\* io_bound_async returns (line 32); lines 149-164 build, print and return
FinishAsync(u) ==
    /\ ReadyHead(u)
    /\ pc[u] = "sleep_ready"
    /\ Finish(u, MakeResult(u, [type |-> "non-blocking I/O Bound",
                                delay |-> round3(procDelay[u])]), Tail(ready))
    /\ UNCHANGED <<config, ep, fib, phase, error, session, tasks, start_time, remaining,
                   request_start, api_time, processing_start, wakeAt, summary,
                   net, srvState, procDelay, calls, workloadCalls, now>>

\* ---- transport and server ------------------------------------------------
NetStep(u, n) ==
    /\ net' = [net EXCEPT ![u] = n]
    /\ UNCHANGED <<config, fib, phase, error, session, tasks, start_time, pc, ready,
                   remaining, request_start, api_time, processing_start, wakeAt,
                   result, printed, summary, procDelay, calls, workloadCalls,
                   now>>

\* the endpoint cannot be reached: session.get raises
TransportFailure(u) ==
    /\ net[u] = "req"
    /\ NetStep(u, "fail")
    /\ UNCHANGED <<srvState, ep>>

\* states of a request in which its handler occupies the server's event-loop
\* thread: only a coroutine handler that computes without awaiting (/api4)
SrvHoldsLoop_Api2Blocks(n) == n \in {"cpu", "srv"}
SrvHoldsLoop_Api3OnLoop(n) == n \in {"cpu", "blocking"}
SrvHoldsLoop(n) == n = "cpu"

SrvLoopFreeFor(u) == \A v \in Units : v # u => ~SrvHoldsLoop(net[v])
SrvLoopFree       == \A v \in Units : ~SrvHoldsLoop(net[v])

\* a worker of the thread pool is free
PoolHasWorker == Cardinality({v \in Units : net[v] = "blocking"}) < PoolSize

\* GET /api1: answers at once with delay_seconds = 0
api1_instant(u) ==
    /\ net[u] = "req"
    /\ ep[u] = "/api1"
    /\ SrvLoopFree
    /\ delay_seconds' = [delay_seconds EXCEPT ![u] = 0]
    /\ NetStep(u, "resp")
    /\ UNCHANGED <<srvWake, ep>>

\* GET /api2, lines 65-68: draw the delay and suspend in asyncio.sleep
api2_nonblocking_sleep(u) ==
    /\ net[u] = "req"
    /\ ep[u] = "/api2"
    /\ SrvLoopFree
    /\ \E d \in 0..MaxDelay :
          /\ delay_seconds' = [delay_seconds EXCEPT ![u] = d]
          /\ srvWake' = [srvWake EXCEPT ![u] = now + d]
    /\ NetStep(u, "srv")
    /\ UNCHANGED ep

\* GET /api2, lines 70-81: the sleep is over, the response is returned
api2_nonblocking_return(u) ==
    /\ net[u] = "srv"
    /\ now >= srvWake[u]
    /\ SrvLoopFreeFor(u)
    /\ NetStep(u, "resp")
    /\ UNCHANGED <<srvState, ep>>

\* GET /api3 is a plain function (line 85): the event loop hands it to the
\* thread pool and goes on serving
api3_blocking_dispatch(u) ==
    /\ net[u] = "req"
    /\ ep[u] = "/api3"
    /\ SrvLoopFree
    /\ NetStep(u, "pool_wait")
    /\ UNCHANGED <<srvState, ep>>

\* GET /api3, lines 95-98: a worker takes the call, draws the delay and
\* blocks in time.sleep
api3_blocking_sleep(u) ==
    /\ net[u] = "pool_wait"
    /\ PoolHasWorker
    /\ \E d \in 0..MaxDelay :
          /\ delay_seconds' = [delay_seconds EXCEPT ![u] = d]
          /\ srvWake' = [srvWake EXCEPT ![u] = now + d]
    /\ NetStep(u, "blocking")
    /\ UNCHANGED ep

\* GET /api3, lines 100-111: the sleep is over, the function returns and its
\* worker is free again
api3_blocking_return(u) ==
    /\ net[u] = "blocking"
    /\ now >= srvWake[u]
    /\ NetStep(u, "returned")
    /\ UNCHANGED <<srvState, ep>>

\* the event loop sends the value the worker returned
api3_blocking_respond(u) ==
    /\ net[u] = "returned"
    /\ SrvLoopFree
    /\ NetStep(u, "resp")
    /\ UNCHANGED <<srvState, ep>>

\* GET /api4 is a coroutine (line 158) that calls fibonacci in place, lines
\* 168-174: it computes on the event-loop thread
api4_cpu_bound_compute(u) ==
    /\ net[u] = "req"
    /\ ep[u] = "/api4"
    /\ SrvLoopFree
    /\ \E c \in 1..MaxCpu :
          /\ delay_seconds' = [delay_seconds EXCEPT ![u] = c]
          /\ srvWake' = [srvWake EXCEPT ![u] = now + c]
    /\ NetStep(u, "cpu")
    /\ UNCHANGED ep

\* GET /api4, lines 176-194: fibonacci has returned, the response is sent
api4_cpu_bound_return(u) ==
    /\ net[u] = "cpu"
    /\ now >= srvWake[u]
    /\ NetStep(u, "resp")
    /\ UNCHANGED <<srvState, ep>>

\* a client somewhere sends a GET to one of the routes
Arrive(u) ==
    /\ net[u] = "idle"
    /\ \E e \in ServerEndpoints : ep' = [ep EXCEPT ![u] = e]
    /\ NetStep(u, "req")
    /\ UNCHANGED srvState

\* some server step that takes no time can be taken now
SrvUrgent ==
    \E u \in Units :
        \/ net[u] = "req" /\ SrvLoopFree
        \/ net[u] = "srv" /\ now >= srvWake[u] /\ SrvLoopFreeFor(u)
        \/ net[u] = "pool_wait" /\ PoolHasWorker
        \/ net[u] = "blocking" /\ now >= srvWake[u]
        \/ net[u] = "returned" /\ SrvLoopFree
        \/ net[u] = "cpu" /\ now >= srvWake[u]

\* the server's clock advances while its requests sleep, block or compute
SrvTick ==
    /\ ~SrvUrgent
    /\ \E u \in Units : net[u] \in {"srv", "pool_wait", "blocking", "cpu"}
    /\ now' = now + 1
    /\ UNCHANGED <<config, ep, fib, phase, error, session, tasks, start_time,
                   pc, ready, remaining, request_start, api_time,
                   processing_start, wakeAt, result, printed, summary, net,
                   srvState, procDelay, calls, workloadCalls>>

\* ---- time ----------------------------------------------------------------
\* some step that takes no time can be taken now
Urgent ==
    \/ phase \in {"Configured", "Dispatched"}
    \/ LoopFree /\ ready # <<>>
    \/ \E u \in Units :
          \/ pc[u] = "computing" /\ remaining = 0
          \/ net[u] = "req"
          \/ net[u] = "srv" /\ now >= srvWake[u]
          \/ LoopFreeFor(u) /\ pc[u] = "awaiting_api" /\ net[u] \in {"resp", "fail"}
          \/ LoopFreeFor(u) /\ pc[u] = "sleeping" /\ SleepDue(u)

\* the clock advances while the loop waits in the selector or a synchronous
\* workload computes
Tick ==
    /\ phase = "Collecting"
    /\ ~Urgent
    /\ \E u \in Units : pc[u] \notin {"none", "done"}
    /\ now' = now + 1
    /\ remaining' = IF remaining > 0 THEN remaining - 1 ELSE 0
    /\ UNCHANGED <<config, ep, fib, phase, error, session, tasks, start_time, pc, ready,
                   request_start, api_time, processing_start, wakeAt, result,
                   printed, summary, net, srvState, procDelay, calls,
                   workloadCalls>>

Next ==
    \/ CreateTasks
    \/ Gather
    \/ Summarize
    \/ Tick
    \/ \E u \in Units :
          \/ StartUnit(u)
          \/ WakeApi(u)
          \/ ResumeAfterApi(u)
          \/ FinishSync(u)
          \/ WakeSleep(u)
          \/ FinishAsync(u)
          \/ TransportFailure(u)
          \/ api1_instant(u)
          \/ api2_nonblocking_sleep(u)
          \/ api2_nonblocking_return(u)

Spec == Init /\ [][Next]_vars

\* the event loop keeps running what is runnable, every network call ends in
\* a response or a failure, every timer fires and every workload returns
FairSpec == Spec /\ WF_vars(Next)

\* ---- fibonacci --------------------------------------------------------------
\* `if n <= 1: return n` (server line 126, client line 41)
IsBaseCase_Strict(k) == k < 1
IsBaseCase(k) == k <= 1

Frame(k) == [n |-> k, stage |-> "entered", left |-> 0, right |-> 0]
TopFrame == fib.stack[Len(fib.stack)]
WithTop(f) == [fib.stack EXCEPT ![Len(fib.stack)] = f]

\* `fibonacci(n - 1) + fibonacci(n - 2)`: the frame on top calls itself, first
\* for the left operand, then for the right one
fibonacci_call ==
    /\ fib.stack # <<>>
    /\ \/ /\ TopFrame.stage = "entered"
          /\ ~IsBaseCase(TopFrame.n)
          /\ fib' = [fib EXCEPT
                       !.stack = Append(WithTop([TopFrame EXCEPT !.stage = "left"]),
                                        Frame(TopFrame.n - 1)),
                       !.calls = @ + 1]
       \/ /\ TopFrame.stage = "has_left"
          /\ fib' = [fib EXCEPT
                       !.stack = Append(WithTop([TopFrame EXCEPT !.stage = "right"]),
                                        Frame(TopFrame.n - 2)),
                       !.calls = @ + 1]
    /\ UNCHANGED <<config, ep, phase, error, session, tasks, start_time, pc,
                   ready, remaining, request_start, api_time, processing_start,
                   wakeAt, result, printed, summary, net, srvState, procDelay,
                   calls, workloadCalls, now>>

\* the frame on top returns, n in the base case and the sum otherwise, to the
\* frame that called it or, for the outermost call, to the caller
fibonacci_return ==
    /\ fib.stack # <<>>
    /\ \/ TopFrame.stage = "entered" /\ IsBaseCase(TopFrame.n)
       \/ TopFrame.stage = "has_right"
    /\ LET v    == IF TopFrame.stage = "entered"
                   THEN TopFrame.n
                   ELSE TopFrame.left + TopFrame.right
           rest == SubSeq(fib.stack, 1, Len(fib.stack) - 1)
       IN IF rest = <<>>
          THEN fib' = [fib EXCEPT !.stack = <<>>, !.done = TRUE, !.value = v]
          ELSE LET c == rest[Len(rest)]
                   c2 == IF c.stage = "left"
                         THEN [c EXCEPT !.stage = "has_left", !.left = v]
                         ELSE [c EXCEPT !.stage = "has_right", !.right = v]
               IN fib' = [fib EXCEPT !.stack = [rest EXCEPT ![Len(rest)] = c2]]
    /\ UNCHANGED <<config, ep, phase, error, session, tasks, start_time, pc,
                   ready, remaining, request_start, api_time, processing_start,
                   wakeAt, result, printed, summary, net, srvState, procDelay,
                   calls, workloadCalls, now>>

\* fibonacci(n) has just been called, by /api4 or inside cpu_bound
FibInit ==
    /\ api_endpoint = "/api1"
    /\ count = 0
    /\ processing_func = "cpu_bound"
    /\ Idle
    /\ \E w \in {"server", "client"}, k \in 0..MaxFibN :
          fib = [who |-> w, n |-> k, stack |-> <<Frame(k)>>, calls |-> 1,
                 done |-> FALSE, value |-> 0]

FibNext == fibonacci_call \/ fibonacci_return

SpecFib == FibInit /\ [][FibNext]_vars

\* ---- the server on its own, under requests from any clients ---------------
ServerInit ==
    /\ api_endpoint = "/api1"
    /\ count = 0
    /\ processing_func = "simple_computation"
    /\ Idle
    /\ fib = FibIdle

ServerNext ==
    \/ SrvTick
    \/ \E u \in Units :
          \/ Arrive(u)
          \/ api1_instant(u)
          \/ api2_nonblocking_sleep(u)
          \/ api2_nonblocking_return(u)
          \/ api3_blocking_dispatch(u)
          \/ api3_blocking_sleep(u)
          \/ api3_blocking_return(u)
          \/ api3_blocking_respond(u)
          \/ api4_cpu_bound_compute(u)
          \/ api4_cpu_bound_return(u)

SpecServer == ServerInit /\ [][ServerNext]_vars

\* ==== properties ==========================================================
Finished == phase = "Completed"
RequestNumOf(r) == IF "request_num" \in DOMAIN r THEN r.request_num ELSE 0
FailedCount(rs) ==
    Cardinality({i \in 1..Len(rs) : IsException(rs[i]) \/ HasError(rs[i])})
Dispatched(u) == u \in Units /\ u <= count

\* C1: for every count > 0 and every mix of network outcomes, when
\* execute_scenario finishes `results` holds exactly count entries, exactly
\* one for each ordinal 1..count, and the succeeded and the failed entries
\* add up to count.
C1_OneResultPerUnit ==
    (Finished /\ count > 0) =>
        /\ Len(results) = count
        /\ \A n \in 1..count :
              Cardinality({i \in 1..Len(results) : RequestNumOf(results[i]) = n}) = 1
        /\ success_count + FailedCount(results) = count

C1_Witness ==
    /\ Finished
    /\ count >= 2
    /\ \E u, v \in 1..count : net[u] = "fail" /\ net[v] = "resp"
    /\ Len(results) = count

\* C2: a transport failure is caught inside the unit it happens in (the
\* unit's task never ends with an exception) and aborts nothing: once the
\* scenario has finished, every sibling has issued its call, run its workload
\* and returned its own result, and every unit is done.
C2_FailureStaysLocal ==
    \A u \in Units :
        (Dispatched(u) /\ net[u] = "fail") =>
            /\ ~IsException(result[u])
            /\ Finished =>
                  \A v \in 1..count :
                      /\ pc[v] = "done"
                      /\ v # u => /\ calls[v] = 1
                                  /\ workloadCalls[v] = 1
                                  /\ RequestNumOf(result[v]) = v

C2_Witness ==
    /\ Finished
    /\ \E u, v \in 1..count :
          /\ u # v
          /\ net[u] = "fail"
          /\ net[v] = "resp"
          /\ workloadCalls[v] = 1
          /\ pc[v] = "done"

\* C3: when every unit's network call ends in a transport failure, every
\* entry of `results` is marked failed and success_count is 0 once the
\* scenario has finished.
C3_UnreachableCountsNoSuccess ==
    (Finished /\ count > 0 /\ \A u \in 1..count : net[u] = "fail") =>
        /\ success_count = 0
        /\ \A i \in 1..Len(results) : HasError(results[i]) \/ IsException(results[i])

\* C4: a scenario with count <= 0 never divides by zero and, when it ends,
\* has ended in InvalidConfig without having computed an average.
C4_InvalidConfigBeforeDispatch ==
    count <= 0 =>
        /\ error # "ZeroDivisionError"
        /\ phase \in {"Completed", "Crashed"} =>
              error = "InvalidConfig" /\ average = None

\* C5: a unit whose network call ended in a transport failure never invokes
\* the workload, and the result it returns carries the failure.
C5_FailureSkipsWorkload ==
    \A u \in Units :
        net[u] = "fail" =>
            /\ workloadCalls[u] = 0
            /\ pc[u] = "done" => HasError(result[u])

\* C6: as long as some unit has not yet issued its network call, no time has
\* passed since the scenario started and no other unit has got past its own
\* network call: a unit never waits for another unit's call or wait.
C6_StartedTogether ==
    \A v \in Units :
        pc[v] = "ready" =>
            /\ now = start_time
            /\ \A u \in Units : pc[u] \in {"none", "ready", "awaiting_api", "api_ready"}

C6_Witness ==
    \E u, v \in Units :
        /\ u # v
        /\ net[u] = "srv" /\ srvWake[u] > now
        /\ net[v] = "req" /\ pc[v] = "awaiting_api"
        /\ request_start[v] = start_time

\* the delay a unit went through: the server's plus its own workload's
UnitDelay(u) == (IF net[u] = "resp" THEN delay_seconds[u] ELSE 0) + procDelay[u]
RECURSIVE MaxUnitDelay(_)
MaxUnitDelay(n) ==
    IF n <= 0 THEN 0
    ELSE LET m == MaxUnitDelay(n - 1)
         IN IF UnitDelay(n) > m THEN UnitDelay(n) ELSE m
RECURSIVE SumUnitDelay(_)
SumUnitDelay(n) == IF n <= 0 THEN 0 ELSE UnitDelay(n) + SumUnitDelay(n - 1)

\* C7: against /api2 with the instant or the yielding-wait workload, the
\* scenario's total_time is the largest delay of any single unit, not the
\* sum of the units' delays.
C7_ElapsedIsMaxDelay ==
    (Finished /\ api_endpoint = "/api2"
              /\ processing_func \in {"simple_computation", "io_bound_async"}) =>
        total_time = MaxUnitDelay(count)

C7_Witness ==
    /\ Finished
    /\ api_endpoint = "/api2"
    /\ processing_func = "io_bound_async"
    /\ \E u, v \in 1..count : u # v /\ delay_seconds[u] > 0 /\ procDelay[v] > 0
    /\ total_time < SumUnitDelay(count)

\* C8: while a unit is inside the cpu_bound workload, the event loop can
\* still service another unit whose response has arrived.
C8_LoopNotStalledByCpu ==
    \A u, v \in Units :
        (/\ u # v
         /\ processing_func = "cpu_bound"
         /\ pc[u] = "computing" /\ remaining > 0
         /\ pc[v] = "awaiting_api" /\ net[v] \in {"resp", "fail"})
        => ENABLED WakeApi(v)

\* C9: whatever order the units finished in, entry i of `results` is the
\* result of the unit with request_num i, and success_count is the number of
\* units whose own result is neither an exception nor an error.
C9_OrderedByRequestNum ==
    Finished =>
        /\ \A i \in 1..Len(results) : RequestNumOf(results[i]) = i
        /\ success_count =
              Cardinality({u \in Units : /\ Dispatched(u)
                                         /\ pc[u] = "done"
                                         /\ ~IsException(result[u])
                                         /\ ~HasError(result[u])})

C9_Witness ==
    /\ Finished
    /\ Len(printed) >= 2
    /\ printed[1] > printed[2]
    /\ results[1].request_num = 1

Rank(p) ==
    CASE p = "Configured" -> 0
      [] p = "Dispatched" -> 1
      [] p = "Collecting" -> 2
      [] OTHER            -> 3

\* C10: the scenario only moves forward, one stage at a time, through
\* Configured, Dispatched, Collecting, Completed, and it leaves Collecting
\* only when every unit has returned: the summary never exists while a unit
\* is still running.
C10_ForwardOnly ==
    [][/\ Rank(phase') - Rank(phase) \in {0, 1}
       /\ Rank(phase') = 3 => \A u \in Units : Dispatched(u) => pc'[u] = "done"
       /\ Rank(phase) = 3 => UNCHANGED <<phase, summary>>]_vars

C10_Witness ==
    /\ Finished
    /\ count >= 2
    /\ total_time > 0
    /\ \A u \in 1..count : pc[u] = "done"

\* C14: under fair scheduling every scenario with count > 0 eventually
\* completes, with every one of its units having returned a result of its
\* own: no unit is cancelled and nothing ends the scenario early.
C14_EventuallyCompletes ==
    (count > 0) ~>
        (Finished /\ \A u \in Units :
                        Dispatched(u) => pc[u] = "done" /\ RequestNumOf(result[u]) = u)

C14_Witness ==
    /\ Finished
    /\ count = MaxCount
    /\ \A u \in Units : pc[u] = "done" /\ RequestNumOf(result[u]) = u
    /\ \E u \in Units : net[u] = "resp" /\ delay_seconds[u] > 0

RECURSIVE SumCalls(_)
SumCalls(n) == IF n <= 0 THEN 0 ELSE calls[n] + SumCalls(n - 1)

\* C15: a unit never issues a second GET, whether its call succeeded or
\* failed, and a finished scenario of count units has issued exactly count
\* GETs, one per unit.
C15_OneCallPerUnit ==
    /\ \A u \in Units : calls[u] <= 1
    /\ \A u \in Units : (pc[u] \notin {"none", "created", "ready"}) => calls[u] = 1
    /\ (Finished /\ count > 0) => SumCalls(count) = count

C15_Witness ==
    /\ Finished
    /\ count >= 2
    /\ \E u \in Units : net[u] = "fail" /\ calls[u] = 1 /\ pc[u] = "done"
    /\ SumCalls(count) = count

\* C16: in every result a unit returned, api_time, processing_time and
\* total_time are non-negative and total_time >= api_time + processing_time.
C16_TotalCoversPhases ==
    \A u \in Units :
        (pc[u] = "done" /\ ~IsException(result[u])) =>
            /\ result[u].api_time >= 0
            /\ result[u].processing_time >= 0
            /\ result[u].total_time >= 0
            /\ result[u].total_time >= result[u].api_time + result[u].processing_time

\* C18: a unit inside the yielding wait does not hold the event loop (the
\* loop can still take up another unit whose response has arrived), and it
\* is resumed, and so returns its result, only once its delay has elapsed.
C18_YieldingWaitSuspends ==
    /\ \A u, v \in Units :
          (/\ u # v
           /\ pc[u] = "sleeping"
           /\ pc[v] = "awaiting_api" /\ net[v] \in {"resp", "fail"})
          => ENABLED WakeApi(v)
    /\ \A u \in Units :
          (iscoroutinefunction(processing_func) /\ pc[u] \in {"sleep_ready", "done"})
          => /\ now >= wakeAt[u]
             /\ now - processing_start[u] >= procDelay[u]

C18_Witness ==
    \E u, v \in Units :
        /\ u # v
        /\ pc[u] = "sleeping" /\ now < wakeAt[u]
        /\ processing_start[u] < now
        /\ pc[v] = "api_ready"

\* C19: the shared session is open whenever a unit's network call is issued
\* or pending, it is open exactly from dispatch until gather has returned,
\* and once it is closed every unit has completed.
C19_SessionOpenDuringCalls ==
    /\ \A u \in Units :
          (net[u] \in {"req", "srv"} \/ pc[u] \in {"awaiting_api", "api_ready"})
          => session = "open"
    /\ (session = "open") <=> (phase \in {"Dispatched", "Collecting"})
    /\ session = "closed" => \A u \in Units : Dispatched(u) => pc[u] = "done"

C19_Witness ==
    /\ session = "closed"
    /\ count >= 2
    /\ \A u \in Units : pc[u] = "done" /\ calls[u] = 1

\* C20: a synchronous workload runs without a suspension point: while a unit
\* is inside one no other unit takes a step, and at most one unit is inside
\* one at any time, so the cpu_bound computations run one after another.
C20_SyncWorkloadSerializes ==
    [][/\ Cardinality({u \in Units : pc[u] = "computing"}) <= 1
       /\ \A u, v \in Units :
             (u # v /\ pc[u] = "computing")
             => /\ pc'[v] = pc[v]
                /\ result'[v] = result[v]
                /\ request_start'[v] = request_start[v]]_vars

C20_Witness ==
    \E u, v \in Units :
        /\ u # v
        /\ processing_func = "cpu_bound"
        /\ pc[u] = "computing" /\ remaining > 0 /\ now > processing_start[u]
        /\ pc[v] = "awaiting_api" /\ net[v] = "resp"

\* ---- the server -------------------------------------------------------------
Servable(u) ==
    ENABLED (\/ api1_instant(u)
             \/ api2_nonblocking_sleep(u)
             \/ api3_blocking_dispatch(u)
             \/ api4_cpu_bound_compute(u))
HandlerStart(u) == srvWake[u] - delay_seconds[u]

\* C11: a /api2 request suspended in its wait does not occupy the thread that
\* handles requests: while /api2 requests wait (and no /api4 computation
\* runs), a request that has arrived is taken up at once, and a waiting /api2
\* request is answered when its own delay is over, whatever the other
\* waiting requests (it is late only if a /api4 request was computed).
C11_Api2WaitFreesThread ==
    /\ \A u \in Units :
          (/\ net[u] = "req"
           /\ \E r \in Units : net[r] = "srv"
           /\ \A r \in Units : net[r] # "cpu")
          => Servable(u)
    /\ \A u \in Units :
          (net[u] = "srv" /\ now > srvWake[u])
          => \E r \in Units : ep[r] = "/api4" /\ net[r] \in {"cpu", "resp"}

C11_Witness ==
    \E u, v \in Units :
        /\ ep[u] = "/api2" /\ ep[v] = "/api2"
        /\ net[u] = "srv" /\ now < srvWake[u]
        /\ net[v] = "resp"
        /\ HandlerStart(v) > HandlerStart(u)

\* C12: a /api4 request occupies only a worker of the pool: while it computes,
\* a request to any endpoint that has arrived is still taken up.
C12_Api4OccupiesOnlyAWorker ==
    \A u, v \in Units :
        (/\ u # v
         /\ net[u] = "cpu" /\ now < srvWake[u]
         /\ net[v] = "req")
        => Servable(v)

\* C17: a /api3 request blocks only a worker of the pool: at most PoolSize
\* requests are in their sleep, a request handed to the pool starts as soon
\* as (and only when) a worker is free, and while /api3 requests sleep or
\* wait for a worker (and no /api4 computation runs) a request that has
\* arrived is taken up at once and a waiting /api2 request is not held up.
C17_Api3BlocksOnlyItsWorker ==
    /\ Cardinality({u \in Units : net[u] = "blocking"}) <= PoolSize
    /\ \A u \in Units :
          net[u] = "pool_wait" =>
              ((ENABLED api3_blocking_sleep(u))
                  <=> Cardinality({v \in Units : net[v] = "blocking"}) < PoolSize)
    /\ \A u \in Units :
          (/\ net[u] = "req"
           /\ \E r \in Units : net[r] \in {"blocking", "pool_wait"}
           /\ \A r \in Units : net[r] # "cpu")
          => Servable(u)
    /\ \A u \in Units :
          (/\ net[u] = "srv" /\ now >= srvWake[u]
           /\ \A r \in Units : net[r] # "cpu")
          => ENABLED api2_nonblocking_return(u)

C17_Witness ==
    \E u, v \in Units :
        /\ ep[u] = "/api3"
        /\ net[u] = "blocking" /\ HandlerStart(u) < now /\ now < srvWake[u]
        /\ ep[v] \in {"/api1", "/api2"}
        /\ net[v] = "req"

\* ---- fibonacci --------------------------------------------------------------
RECURSIVE FibIter(_, _, _)
FibIter(k, a, b) == IF k <= 0 THEN a ELSE FibIter(k - 1, b, a + b)
\* the iterative reference: fib(0) = 0, fib(1) = 1, fib(n) = fib(n-1) + fib(n-2)
FibRef(n) == FibIter(n, 0, 1)

\* C13: for every input n >= 0 stepped through, the recursion of fibonacci
\* (the server's and the one nested in cpu_bound) terminates, after exactly
\* 2 * fib(n + 1) - 1 calls, with the n-th Fibonacci number of the iterative
\* reference; for n = 0 and n = 1 it returns n without a recursive call.
C13_FibonacciMatchesReference ==
    /\ fib.calls <= 2 * FibRef(fib.n + 1) - 1
    /\ Len(fib.stack) <= fib.n + 1
    /\ fib.done =>
          /\ fib.value = FibRef(fib.n)
          /\ fib.calls = 2 * FibRef(fib.n + 1) - 1
          /\ fib.n <= 1 => fib.value = fib.n /\ fib.calls = 1

C13_Witness ==
    /\ fib.done
    /\ fib.who = "client"
    /\ fib.n >= 5
    /\ fib.value = FibRef(fib.n)
    /\ fib.calls > 1

====
